---- MODULE Spec2Model ----
(***************************************************************************)
(* Model of the story maker: the prompt validator (PromptValidator), the   *)
(* generation orchestrator (StoryGenerationPipeline), its post-processing  *)
(* (title, reading time) and the terminal front end's main loop            *)
(* (StoryTUI).  Texts are TLA+ strings; a character is a string of length  *)
(* one, and the regular expressions, str.lower, str.strip, str.split and   *)
(* str.startswith are computed character by character.                     *)
(***************************************************************************)
EXTENDS Integers, Sequences, FiniteSets, TLC

(***************************************************************************)
(* Bounds of the explored inputs.                                          *)
(***************************************************************************)
MaxTerms == 4
MaxLines == 4
MaxWordCount == 620

(***************************************************************************)
(* Characters and Python's string methods.                                 *)
(***************************************************************************)
Char(s, i) == SubSeq(s, i, i)

UpperToLower ==
  [c \in {"A", "B", "C", "D", "E", "F", "G", "H", "I", "J", "K", "L", "M",
          "N", "O", "P", "Q", "R", "S", "T", "U", "V", "W", "X", "Y", "Z"} |->
     CASE c = "A" -> "a" [] c = "B" -> "b" [] c = "C" -> "c" [] c = "D" -> "d"
       [] c = "E" -> "e" [] c = "F" -> "f" [] c = "G" -> "g" [] c = "H" -> "h"
       [] c = "I" -> "i" [] c = "J" -> "j" [] c = "K" -> "k" [] c = "L" -> "l"
       [] c = "M" -> "m" [] c = "N" -> "n" [] c = "O" -> "o" [] c = "P" -> "p"
       [] c = "Q" -> "q" [] c = "R" -> "r" [] c = "S" -> "s" [] c = "T" -> "t"
       [] c = "U" -> "u" [] c = "V" -> "v" [] c = "W" -> "w" [] c = "X" -> "x"
       [] c = "Y" -> "y" [] c = "Z" -> "z"]

LowerLetters ==
  {"a", "b", "c", "d", "e", "f", "g", "h", "i", "j", "k", "l", "m",
   "n", "o", "p", "q", "r", "s", "t", "u", "v", "w", "x", "y", "z"}

UpperLetters == DOMAIN UpperToLower

Digits == {"0", "1", "2", "3", "4", "5", "6", "7", "8", "9"}

\* \w of the re module: letters, digits and the underscore
WordChars == LowerLetters \cup UpperLetters \cup Digits \cup {"_"}

IsWordChar(c) == c \in WordChars

\* the characters str.strip and str.split() treat as white space
SpaceChars == {" ", "\n", "\t", "\r", "\f"}

IsSpace(c) == c \in SpaceChars

LowerChar(c) == IF c \in UpperLetters THEN UpperToLower[c] ELSE c

\* the characters i..j of s in lower case (by halves, to keep the recursion flat)
RECURSIVE LowerRange(_, _, _)
LowerRange(s, i, j) ==
  IF i > j THEN ""
  ELSE IF i = j THEN LowerChar(Char(s, i))
       ELSE LET m == (i + j) \div 2
            IN  LowerRange(s, i, m) \o LowerRange(s, m + 1, j)

\* str.lower
Lower(s) == LowerRange(s, 1, Len(s))

\* str.startswith
StartsWith(s, p) == Len(s) >= Len(p) /\ SubSeq(s, 1, Len(p)) = p

\* str.endswith
EndsWith(s, p) == Len(s) >= Len(p) /\ SubSeq(s, Len(s) - Len(p) + 1, Len(s)) = p

Min(S) == CHOOSE x \in S : \A y \in S : x <= y

MaxOf(S) == CHOOSE x \in S : \A y \in S : x >= y

\* str.strip
Strip(s) ==
  LET kept == {i \in 1..Len(s) : ~IsSpace(Char(s, i))}
  IN  IF kept = {} THEN "" ELSE SubSeq(s, Min(kept), MaxOf(kept))

\* the pieces of s from position start on, cut at the positions in seps
RECURSIVE SplitFrom(_, _, _)
SplitFrom(s, seps, start) ==
  LET rest == {i \in seps : i >= start}
  IN  IF rest = {} THEN <<SubSeq(s, start, Len(s))>>
      ELSE <<SubSeq(s, start, Min(rest) - 1)>> \o SplitFrom(s, seps, Min(rest) + 1)

\* str.split(sep) for a separator of one character
Split(s, sep) == SplitFrom(s, {i \in 1..Len(s) : Char(s, i) = sep}, 1)

\* len(str.split()): the number of white-space delimited tokens, each of
\* which starts at a non-space character that follows a space or nothing
CountWords(s) ==
  Cardinality({i \in 1..Len(s) :
                 ~IsSpace(Char(s, i)) /\ (i = 1 \/ IsSpace(Char(s, i - 1)))})

RECURSIVE SeqToSet(_)
SeqToSet(q) == IF q = <<>> THEN {} ELSE {Head(q)} \cup SeqToSet(Tail(q))

(***************************************************************************)
(* The regular expressions of the validator all have the form              *)
(* \b(w1|w2|...)\b; a pattern is the sequence of its alternatives.         *)
(***************************************************************************)
\* \b at the position before character i of s
WordBoundary(s, i) ==
  LET before == i > 1 /\ i - 1 <= Len(s) /\ IsWordChar(Char(s, i - 1))
      after  == i >= 1 /\ i <= Len(s) /\ IsWordChar(Char(s, i))
  IN  before # after

\* whether alternative w matches s at i between two word boundaries
AltMatchesAt(s, i, w) ==
  LET j == i + Len(w) - 1
  IN  /\ j <= Len(s)
      /\ SubSeq(s, i, j) = w
      /\ WordBoundary(s, i)
      /\ WordBoundary(s, j + 1)

\* the index of the first alternative of the pattern matching at i, 0 if none
RECURSIVE FirstAlt(_, _, _, _)
FirstAlt(s, i, pattern, k) ==
  IF k > Len(pattern) THEN 0
  ELSE IF AltMatchesAt(s, i, pattern[k]) THEN k
       ELSE FirstAlt(s, i, pattern, k + 1)

\* the positions of s at which the pattern matches
MatchPositions(pattern, s) ==
  {i \in 1..Len(s) : WordBoundary(s, i) /\ FirstAlt(s, i, pattern, 1) # 0}

\* the scan goes left to right and resumes behind each match
RECURSIVE FindAllFrom(_, _, _, _)
FindAllFrom(pattern, s, at, i) ==
  LET rest == {j \in at : j >= i}
  IN  IF rest = {} THEN <<>>
      ELSE LET j == Min(rest)
               w == pattern[FirstAlt(s, j, pattern, 1)]
           IN  <<w>> \o FindAllFrom(pattern, s, at, j + Len(w))

\* re.findall(pattern, s): the text of the group of each match
FindAll(pattern, s) == FindAllFrom(pattern, s, MatchPositions(pattern, s), 1)

\* low is s in lower case: an alternative, written in lower case, matches s
\* ignoring case where it matches low
RECURSIVE SubFrom(_, _, _, _, _, _)
SubFrom(pattern, repl, s, low, at, i) ==
  LET rest == {j \in at : j >= i}
  IN  IF rest = {} THEN SubSeq(s, i, Len(s))
      ELSE LET j == Min(rest)
               w == pattern[FirstAlt(low, j, pattern, 1)]
           IN  SubSeq(s, i, j - 1) \o repl
                 \o SubFrom(pattern, repl, s, low, at, j + Len(w))

\* re.sub(pattern, repl, s, flags=re.IGNORECASE)
Sub(pattern, repl, s) ==
  SubFrom(pattern, repl, s, Lower(s), MatchPositions(pattern, Lower(s)), 1)

(***************************************************************************)
(* PromptValidator                                                         *)
(***************************************************************************)
harmful_patterns ==
  << <<"kill", "death", "die", "murder", "suicide">>,
     <<"violence", "fighting", "war", "gun", "weapon", "blood", "gore">>,
     <<"hate", "racist", "discrimination">>,
     <<"scary", "frightening", "nightmare", "terror", "horror">>,
     <<"inappropriate", "adult", "sexual">> >>

\* the dictionary in insertion order, which is the order validate applies it in
replacements ==
  << [pattern |-> <<"scary", "frightening", "terror", "horror">>, replacement |-> "mysterious"],
     [pattern |-> <<"fight", "fighting">>, replacement |-> "disagree"],
     [pattern |-> <<"hurt", "pain">>, replacement |-> "uncomfortable"],
     [pattern |-> <<"angry", "mad">>, replacement |-> "upset"],
     [pattern |-> <<"bad", "evil">>, replacement |-> "mischievous"] >>

genre_starters ==
  [adventure  |-> "Once upon a time, in a land of exciting adventures, ",
   fantasy    |-> "In a magical world filled with wonder, ",
   friendship |-> "In a warm and friendly place, ",
   learning   |-> "One day, a curious child discovered that ",
   animals    |-> "In a forest where animals could talk, ",
   bedtime    |-> "As the stars began to twinkle in the night sky, ",
   funny      |-> "On a silly and wonderful day, ",
   mystery    |-> "There was an interesting mystery to solve when "]

\* genre_starters.get(genre.lower(), "Once upon a time, ")
Starter(genre) ==
  IF Lower(genre) \in DOMAIN genre_starters
  THEN genre_starters[Lower(genre)]
  ELSE "Once upon a time, "

StoryBeginnings == <<"once", "there", "in a", "one day">>

HasStoryBeginning(prompt) ==
  \E k \in DOMAIN StoryBeginnings : StartsWith(Lower(prompt), StoryBeginnings[k])

\* _enhance_prompt looking for the story beginnings without lower-casing
enhance_prompt_case_sensitive(prompt, genre) ==
  IF ~(\E k \in DOMAIN StoryBeginnings : StartsWith(prompt, StoryBeginnings[k]))
  THEN Starter(genre) \o Lower(prompt)
  ELSE prompt

_enhance_prompt(prompt, genre) ==
  IF ~HasStoryBeginning(prompt)
  THEN Starter(genre) \o Lower(prompt)
  ELSE prompt

\* the warning of one harmful pattern; the order in which ', '.join(set(matches))
\* lists the terms is not fixed, so the warning carries the set
RemovedWarning(matches) ==
  [text |-> "Removed potentially inappropriate content", terms |-> SeqToSet(matches)]

ModifiedWarning ==
  [text |-> "Prompt was significantly modified for safety", terms |-> {}]

\* the loop over harmful_patterns: removed_content and warnings after the
\* first k patterns
RECURSIVE HarmfulScan(_, _)
HarmfulScan(prompt, k) ==
  IF k = 0 THEN [removed_content |-> <<>>, warnings |-> <<>>, is_safe |-> TRUE]
  ELSE LET prev    == HarmfulScan(prompt, k - 1)
           matches == FindAll(harmful_patterns[k], Lower(prompt))
       IN  IF matches # <<>>
           THEN [removed_content |-> prev.removed_content \o matches,
                 warnings |-> Append(prev.warnings, RemovedWarning(matches)),
                 is_safe |-> FALSE]
           ELSE prev

\* the loop over replacements: the prompt after the first k substitutions
RECURSIVE CleanPrompt(_, _)
CleanPrompt(prompt, k) ==
  IF k = 0 THEN prompt
  ELSE Sub(replacements[k].pattern, replacements[k].replacement,
           CleanPrompt(prompt, k - 1))

GenreTemplate(genre) ==
  "A gentle " \o genre \o " story about friendship and kindness"

\* whether validate replaces the prompt by the genre template
SeverelyUnsafe(scan) == ~scan.is_safe /\ Len(scan.removed_content) > 3

\* the final flag written as "not is_safe and len(removed_content) <= 3"
FinalSafeOnlyMinor(scan) == ~scan.is_safe /\ Len(scan.removed_content) <= 3

\* the final flag with a tolerance one above that of the severity test
FinalSafeUpToFour(scan) == scan.is_safe \/ Len(scan.removed_content) <= 4

\* the is_safe validate returns ("Allow minor issues")
FinalSafe(scan) == scan.is_safe \/ Len(scan.removed_content) <= 3

\* the enhancement run without its condition
EnhancesAlways(scan) == TRUE

\* whether validate enhances the prompt with genre context
Enhances(scan) == scan.is_safe \/ Len(scan.removed_content) <= 3

validate(request) ==
  LET prompt   == request.prompt
      scan     == HarmfulScan(prompt, Len(harmful_patterns))
      cleaned  == CleanPrompt(prompt, Len(replacements))
      replaced == IF SeverelyUnsafe(scan) THEN GenreTemplate(request.genre) ELSE cleaned
      warnings == IF SeverelyUnsafe(scan)
                  THEN Append(scan.warnings, ModifiedWarning)
                  ELSE scan.warnings
  IN  [original_prompt |-> prompt,
       cleaned_prompt  |-> IF Enhances(scan)
                           THEN _enhance_prompt(replaced, request.genre)
                           ELSE replaced,
       is_safe         |-> FinalSafe(scan),
       removed_content |-> SeqToSet(scan.removed_content),
       warnings        |-> warnings]

(***************************************************************************)
(* StoryGenerationPipeline                                                 *)
(***************************************************************************)
None == [none |-> TRUE]

LENGTH_MAPPING == [short |-> 400, medium |-> 600, long |-> 800]

\* MaxLength with the default of the table's middle entry
MaxLengthDefaultMedium(story_length) ==
  IF story_length \in DOMAIN LENGTH_MAPPING
  THEN LENGTH_MAPPING[story_length]
  ELSE 600

\* self.LENGTH_MAPPING.get(request.story_length, 400)
MaxLength(story_length) ==
  IF story_length \in DOMAIN LENGTH_MAPPING
  THEN LENGTH_MAPPING[story_length]
  ELSE 400

DigitChar(d) ==
  CASE d = 0 -> "0" [] d = 1 -> "1" [] d = 2 -> "2" [] d = 3 -> "3" [] d = 4 -> "4"
    [] d = 5 -> "5" [] d = 6 -> "6" [] d = 7 -> "7" [] d = 8 -> "8" [] d = 9 -> "9"

\* the decimal form an f-string gives a non-negative int
RECURSIVE IntToStr(_)
IntToStr(n) ==
  IF n < 10 THEN DigitChar(n) ELSE IntToStr(n \div 10) \o DigitChar(n % 10)

Max(a, b) == IF a >= b THEN a ELSE b

\* the formula of GeneratedStory.get_reading_time in place of the pipeline's
reading_time_of_story(word_count) ==
  LET minutes == Max(1, word_count \div 200)
  IN  IntToStr(minutes) \o "-" \o IntToStr(minutes + 2) \o " minutes"

_calculate_reading_time(word_count) ==
  LET minutes == Max(1, word_count \div 150)
  IN  IntToStr(minutes) \o "-" \o IntToStr(minutes + 1) \o " minutes"

\* [l.strip() for l in story_text.split('\n') if l.strip()]
RECURSIVE NonBlankLines(_)
NonBlankLines(raw) ==
  IF raw = <<>> THEN <<>>
  ELSE IF Strip(Head(raw)) = "" THEN NonBlankLines(Tail(raw))
       ELSE <<Strip(Head(raw))>> \o NonBlankLines(Tail(raw))

\* the index of the first of lines[:3] that starts with "title:", 0 if none
RECURSIVE TitleLine(_, _)
TitleLine(lines, k) ==
  IF k > Len(lines) \/ k > 3 THEN 0
  ELSE IF StartsWith(Lower(lines[k]), "title:") THEN k
       ELSE TitleLine(lines, k + 1)

\* the title generated from the first sentence, or the default title
SentenceTitle(story_text) ==
  LET first_sentence == Strip(Split(story_text, ".")[1])
  IN  IF 10 < Len(first_sentence) /\ Len(first_sentence) < 100
      THEN first_sentence
      ELSE "A Wonderful Story"

_extract_title(story_text) ==
  LET lines == NonBlankLines(Split(story_text, "\n"))
  IN  IF lines # <<>>
      THEN IF Len(lines[1]) < 80 /\ ~EndsWith(lines[1], ".")
           THEN lines[1]
           ELSE LET k == TitleLine(lines, 1)
                IN  IF k # 0
                    THEN Strip(SubSeq(lines[k], 7, Len(lines[k])))
                    ELSE SentenceTitle(story_text)
      ELSE SentenceTitle(story_text)

default_text ==
  "Once upon a time, in a peaceful village, there lived a kind young child "
  \o "who loved to help others. Every day, they would share their toys with friends "
  \o "and learn new things about the world. Through friendship and kindness, "
  \o "they discovered that the greatest adventures come from caring for others. "
  \o "And they all lived happily ever after. The End."

_create_safe_default_story(request, validated) ==
  [title |-> "A Story About Kindness",
   story_text |-> default_text,
   genre |-> request.genre,
   age_group |-> request.age_group,
   word_count |-> CountWords(default_text),
   estimated_reading_time |-> "2-3 minutes",
   is_safe |-> TRUE]

\* the call of self.model.generate_story: its arguments, and whether it raises
ModelCall(request, validated, outcome) ==
  [prompt |-> validated.cleaned_prompt,
   max_length |-> MaxLength(request.story_length),
   temperature |-> "0.8",
   top_p |-> "0.9",
   repetition_penalty |-> "1.2",
   num_return_sequences |-> 1,
   raises |-> outcome.raises]

\* ModelStory with len(story_text) in place of len(story_text.split())
ModelStoryCharCount(request, story_text) ==
  [title |-> _extract_title(story_text),
   story_text |-> story_text,
   genre |-> request.genre,
   age_group |-> request.age_group,
   word_count |-> Len(story_text),
   estimated_reading_time |-> _calculate_reading_time(Len(story_text)),
   is_safe |-> TRUE]

\* steps 3 and 4 of generate: the story made of the model's text
ModelStory(request, story_text) ==
  [title |-> _extract_title(story_text),
   story_text |-> story_text,
   genre |-> request.genre,
   age_group |-> request.age_group,
   word_count |-> CountWords(story_text),
   estimated_reading_time |-> _calculate_reading_time(CountWords(story_text)),
   is_safe |-> TRUE]

\* The outcome of one call of the generation collaborator: it raises, or
\* it returns a list of texts.
Raises == [raises |-> TRUE, stories |-> <<>>]
Returns(text) == [raises |-> FALSE, stories |-> <<text>>]

\* generate without the is_safe test before the model call
generate_unchecked(request, validated, outcome) ==
  IF outcome.raises
  THEN [calls |-> <<ModelCall(request, validated, outcome)>>, raised |-> TRUE,
        story |-> None]
  ELSE [calls |-> <<ModelCall(request, validated, outcome)>>, raised |-> FALSE,
        story |-> ModelStory(request, outcome.stories[1])]

\* generate falling back to the safe default story when the model call fails
generate_fallback(request, validated, outcome) ==
  IF ~validated.is_safe \/ outcome.raises
  THEN [calls |-> IF validated.is_safe
                  THEN <<ModelCall(request, validated, outcome)>>
                  ELSE <<>>,
        raised |-> FALSE,
        story |-> _create_safe_default_story(request, validated)]
  ELSE [calls |-> <<ModelCall(request, validated, outcome)>>, raised |-> FALSE,
        story |-> ModelStory(request, outcome.stories[1])]

\* generate, given what validate returned and what the collaborator does
\* when called: the calls made, whether an exception leaves generate, and
\* the story returned (None when it raised)
generate(request, validated, outcome) ==
  IF ~validated.is_safe
  THEN [calls |-> <<>>, raised |-> FALSE,
        story |-> _create_safe_default_story(request, validated)]
  ELSE IF outcome.raises
       THEN [calls |-> <<ModelCall(request, validated, outcome)>>, raised |-> TRUE,
             story |-> None]
       ELSE [calls |-> <<ModelCall(request, validated, outcome)>>, raised |-> FALSE,
             story |-> ModelStory(request, outcome.stories[1])]

(***************************************************************************)
(* StoryTUI                                                                *)
(***************************************************************************)
GENRES == {"adventure", "fantasy", "friendship", "learning", "animals",
           "bedtime", "funny", "mystery"}

AGE_GROUPS == {"3-5", "5-7", "7-10"}

STORY_LENGTHS == {"short", "medium", "long"}

\* generate_with_progress, given what validate and generate did: the pair it
\* returns, (None, None) after printing "Failed to generate story"; no
\* exception leaves it
generate_with_progress(validated, r) ==
  IF r.raised
  THEN [story |-> None, validated |-> None]
  ELSE [story |-> r.story, validated |-> validated]

\* "if story: self.display_story(story, validated)" in run
Shown(created) == IF created # None THEN created ELSE None

(***************************************************************************)
(* The inputs.                                                             *)
(***************************************************************************)
TermWords == {"kill", "fighting", "hate", "Scary"}

\* the prompts of at most n of the TermWords, separated by one space
RECURSIVE TermPrompts(_)
TermPrompts(n) ==
  IF n = 0 THEN {""}
  ELSE LET shorter == TermPrompts(n - 1)
       IN  shorter \cup {IF p = "" THEN w ELSE p \o " " \o w :
                           p \in shorter, w \in TermWords}

SamplePrompts ==
  {"a brave mouse", "Once upon a time a fox", "ONCE UPON A TIME", "in addition",
   "In a garden", "One day a cat", "There was a dog", "onceler",
   "kill kill kill kill kill", "a Scary war", "war, gun and GORE",
   "kill death die murder", "die adult racist horror blood",
   "a bad angry dragon", "the fight was Scary", "Once upon a time a Scary fox",
   "skill",
   "anti-war", "Bad once", "evil_mad mad", "There was a war: kill, kill, kill",
   "A gentle space story about friendship and kindness"}

Prompts == TermPrompts(MaxTerms) \cup SamplePrompts

\* genres given to the pipeline: known ones in either case, unknown ones
Genres == {"Fantasy", "space", "horror"}

StoryLengths == {"short", "medium", "long", "epic"}

StoryRequest(prompt, genre, age_group, story_length) ==
  [prompt |-> prompt, genre |-> genre, age_group |-> age_group,
   story_length |-> story_length]

\* the requests given to the pipeline; age_group has its default
Requests ==
  {StoryRequest(p, g, "3-7", l) : p \in Prompts, g \in Genres, l \in StoryLengths}

RECURSIVE Repeat(_, _)
Repeat(s, n) == IF n = 0 THEN "" ELSE s \o Repeat(s, n - 1)

\* a story of 302 words: a title line and 30 lines of 10 words
LongStory == "A Fox" \o Repeat("\nthe little fox ran on and on and on again", 30)

\* texts the generation collaborator returns
ModelTexts ==
  {"Title: The Brave Fox\nOnce upon a time...",
   "A fox ran in the wood.\nTitle: Foxes \nThe end.",
   LongStory}

Outcomes == {Raises} \cup {Returns(t) : t \in ModelTexts}

\* what the user types as the story idea
TypedPrompts == {"", " a brave mouse ", "kill war hate scary", "One day a scary cat"}

LongLine ==
  "The little fox walked and walked through the deep green wood until the sun went down"

TextLines ==
  {"Title: The Brave Fox", "Once upon a time...", "A fox ran.", "",
   "  TITLE: Foxes.  ", LongLine}

\* the texts of 1 to n of the TextLines, separated by line feeds
RECURSIVE Texts(_)
Texts(n) ==
  IF n = 1 THEN TextLines
  ELSE LET shorter == Texts(n - 1)
       IN  shorter \cup {t \o "\n" \o l : t \in shorter, l \in TextLines}

(***************************************************************************)
(* The state.                                                              *)
(***************************************************************************)
VARIABLES
  pc,            \* where the caller is: "ready", after a call, or in the TUI loop
  request,       \* the StoryRequest given to generate
  validated,     \* the ValidatedPrompt validate returned inside generate
  calls,         \* the calls of model.generate_story made by generate
  raised,        \* whether an exception left generate
  story,         \* the GeneratedStory generate returned, None if none
  displayed,     \* the story display_story has shown in this iteration
  revalidated,   \* the ValidatedPrompt of validating validated.cleaned_prompt
  story_text,    \* the argument of _extract_title
  title,         \* its result
  word_count,    \* the argument of _calculate_reading_time
  reading_time   \* its result

vars == <<pc, request, validated, calls, raised, story, displayed, revalidated,
          story_text, title, word_count, reading_time>>

pipelineVars == <<request, validated, calls, raised, story>>
postVars == <<story_text, title, word_count, reading_time>>

Init ==
  /\ pc = "ready"
  /\ request = None
  /\ validated = None
  /\ calls = <<>>
  /\ raised = FALSE
  /\ story = None
  /\ displayed = None
  /\ revalidated = None
  /\ story_text = None
  /\ title = None
  /\ word_count = None
  /\ reading_time = None

\* StoryGenerationPipeline.generate called by a user of the pipeline
Generate ==
  /\ pc = "ready"
  /\ \E req \in Requests :
       \E v \in {validate(req)} :
         \E outcome \in Outcomes :
           \E r \in {generate(req, v, outcome)} :
             /\ request' = req
             /\ validated' = v
             /\ calls' = r.calls
             /\ raised' = r.raised
             /\ story' = r.story
             /\ pc' = IF r.raised THEN "raised" ELSE "returned"
  /\ UNCHANGED <<displayed, revalidated>>
  /\ UNCHANGED postVars

\* PromptValidator.validate called again on a cleaned prompt that is the genre
\* template, with the same genre
Revalidate ==
  /\ pc \in {"returned", "raised"}
  /\ validated.cleaned_prompt = GenreTemplate(request.genre)
  /\ revalidated' = validate(StoryRequest(validated.cleaned_prompt, request.genre,
                                          request.age_group, request.story_length))
  /\ pc' = "revalidated"
  /\ UNCHANGED pipelineVars
  /\ UNCHANGED displayed
  /\ UNCHANGED postVars

\* one iteration of StoryTUI.run up to the question "Generate another story?":
\* create_story (with generate_with_progress) and display_story
CreateStory ==
  /\ pc = "ready"
  /\ \E genre \in GENRES, typed \in TypedPrompts, confirmed \in BOOLEAN :
       \E prompt \in {Strip(typed)} :
         IF prompt = "" \/ ~confirmed
         THEN /\ UNCHANGED pipelineVars
              /\ displayed' = Shown(None)
              /\ pc' = "confirm"
         ELSE \E age_group \in AGE_GROUPS, length \in STORY_LENGTHS :
                \E req \in {StoryRequest(prompt, genre, age_group, length)} :
                  \E v \in {validate(req)} :
                    \E outcome \in Outcomes :
                      \E r \in {generate(req, v, outcome)} :
                        \E g \in {generate_with_progress(v, r)} :
                          /\ request' = req
                          /\ validated' = v
                          /\ calls' = r.calls
                          /\ raised' = r.raised
                          /\ story' = r.story
                          /\ displayed' = Shown(g.story)
                          /\ pc' = "confirm"
  /\ UNCHANGED revalidated
  /\ UNCHANGED postVars

\* the answer to "Generate another story?": the loop ends, or it starts over,
\* where story and validated of the finished iteration are bound anew
AskAnother ==
  /\ pc = "confirm"
  /\ \E answer \in BOOLEAN :
       IF answer
       THEN /\ pc' = "ready"
            /\ request' = None
            /\ validated' = None
            /\ calls' = <<>>
            /\ raised' = FALSE
            /\ story' = None
            /\ displayed' = None
       ELSE /\ pc' = "exit"
            /\ UNCHANGED pipelineVars
            /\ UNCHANGED displayed
  /\ UNCHANGED revalidated
  /\ UNCHANGED postVars

\* Ctrl-C at the question: "Interrupted by user", the loop ends
KeyboardInterrupt ==
  /\ pc = "confirm"
  /\ pc' = "exit"
  /\ UNCHANGED pipelineVars
  /\ UNCHANGED <<displayed, revalidated>>
  /\ UNCHANGED postVars

ExtractTitle ==
  /\ pc = "ready"
  /\ \E text \in Texts(MaxLines) :
       /\ story_text' = text
       /\ title' = _extract_title(text)
  /\ pc' = "title"
  /\ UNCHANGED pipelineVars
  /\ UNCHANGED <<displayed, revalidated, word_count, reading_time>>

CalculateReadingTime ==
  /\ pc = "ready"
  /\ \E n \in 0..MaxWordCount :
       /\ word_count' = n
       /\ reading_time' = _calculate_reading_time(n)
  /\ pc' = "reading_time"
  /\ UNCHANGED pipelineVars
  /\ UNCHANGED <<displayed, revalidated, story_text, title>>

Next ==
  \/ Generate
  \/ Revalidate
  \/ CreateStory
  \/ AskAnother
  \/ KeyboardInterrupt
  \/ ExtractTitle
  \/ CalculateReadingTime

Spec == Init /\ [][Next]_vars

(***************************************************************************)
(* Properties.                                                             *)
(***************************************************************************)
RemovedText == "Removed potentially inappropriate content"

HasWarning(v, text) == \E i \in DOMAIN v.warnings : v.warnings[i].text = text

\* C1: generate never calls the generation collaborator when validate
\* returned is_safe = false, and every story it returns, made from the
\* model's text or the safe default, has is_safe = true.
TheoremC1 ==
  /\ (validated # None /\ ~validated.is_safe) => calls = <<>>
  /\ story # None => story.is_safe
  /\ displayed # None => displayed.is_safe

WitnessC1 ==
  /\ pc = "returned"
  /\ ~validated.is_safe
  /\ calls = <<>>
  /\ story.title = "A Story About Kindness"
  /\ story.is_safe

\* C2: a prompt whose harmful matches are 1 to 3 distinct terms, however
\* often each occurs, is validated with is_safe = true, a non-empty
\* removed_content and at least one warning.
CounterC2 ==
  (validated # None /\ Cardinality(validated.removed_content) \in 1..3) =>
     /\ validated.is_safe
     /\ validated.removed_content # {}
     /\ validated.warnings # <<>>

\* C3: a prompt with more than 3 distinct harmful terms is validated with
\* cleaned_prompt exactly "A gentle {genre} story about friendship and
\* kindness" and with the "significantly modified" warning.
TheoremC3 ==
  (validated # None /\ Cardinality(validated.removed_content) > 3) =>
     /\ validated.cleaned_prompt =
          "A gentle " \o request.genre \o " story about friendship and kindness"
     /\ HasWarning(validated, "Prompt was significantly modified for safety")

WitnessC3 ==
  /\ pc = "returned"
  /\ request.genre = "Fantasy"
  /\ validated.removed_content = {"kill", "fighting", "hate", "scary"}
  /\ validated.cleaned_prompt = "A gentle Fantasy story about friendship and kindness"

\* C4: validating the genre template again, with the same genre, finds no
\* harmful term: removed_content is empty, there is no "Removed potentially
\* inappropriate content" warning and is_safe = true.
CounterC4 ==
  pc = "revalidated" =>
     /\ revalidated.removed_content = {}
     /\ ~HasWarning(revalidated, RemovedText)
     /\ revalidated.is_safe

\* C5: when one of the first 3 non-blank lines of the text, the first line
\* included, starts with "title:" in any case, the title is the rest of
\* that line, trimmed; "Title: The Brave Fox\nOnce upon a time..." gives
\* "The Brave Fox".
CounterC5 ==
  pc = "title" =>
     LET lines == NonBlankLines(Split(story_text, "\n"))
         k     == TitleLine(lines, 1)
     IN  /\ k # 0 => title = Strip(SubSeq(lines[k], 7, Len(lines[k])))
         /\ story_text = "Title: The Brave Fox\nOnce upon a time..."
              => title = "The Brave Fox"

\* C6: for a request validated safe, cleaned_prompt is the substituted prompt
\* unchanged when it begins, in any case, with "once", "there", "in a" or
\* "one day", and otherwise the genre opener followed by the substituted
\* prompt in lower case; a prompt beginning with "Once upon a time" gets no
\* opener, and the empty prompt gives exactly the opener.
TheoremC6 ==
  (validated # None /\ validated.is_safe) =>
     LET substituted == CleanPrompt(request.prompt, Len(replacements))
         begins == \E b \in {"once", "there", "in a", "one day"} :
                      StartsWith(Lower(substituted), b)
         opener == IF Lower(request.genre) \in DOMAIN genre_starters
                   THEN genre_starters[Lower(request.genre)]
                   ELSE "Once upon a time, "
     IN  /\ validated.cleaned_prompt =
              IF begins THEN substituted ELSE opener \o Lower(substituted)
         /\ StartsWith(Lower(request.prompt), "once upon a time")
              => validated.cleaned_prompt = substituted
         /\ request.prompt = "" => validated.cleaned_prompt = opener

WitnessC6 ==
  /\ pc = "returned"
  /\ request.prompt = "ONCE UPON A TIME"
  /\ request.genre = "Fantasy"
  /\ validated.is_safe
  /\ validated.cleaned_prompt = "ONCE UPON A TIME"

\* C7: for a request validated safe, generate calls the collaborator once,
\* with max_length 400 for "short", 600 for "medium", 800 for "long" and 400
\* for any other story_length, with validated.cleaned_prompt as the prompt
\* and asking for one sequence.
TheoremC7 ==
  (validated # None /\ validated.is_safe) =>
     /\ Len(calls) = 1
     /\ calls[1].max_length =
          CASE request.story_length = "short"  -> 400
            [] request.story_length = "medium" -> 600
            [] request.story_length = "long"   -> 800
            [] OTHER -> 400
     /\ calls[1].prompt = validated.cleaned_prompt
     /\ calls[1].num_return_sequences = 1

WitnessC7 ==
  /\ pc = "returned"
  /\ request.story_length = "epic"
  /\ request.prompt = "kill"
  /\ Len(calls) = 1
  /\ calls[1].max_length = 400

\* C8: a prompt without any match of a harmful pattern is validated with
\* is_safe = true, an empty removed_content and no warning.
TheoremC8 ==
  (/\ validated # None
   /\ \A k \in DOMAIN harmful_patterns :
        FindAll(harmful_patterns[k], Lower(request.prompt)) = <<>>) =>
     /\ validated.is_safe
     /\ validated.removed_content = {}
     /\ validated.warnings = <<>>

WitnessC8 ==
  /\ pc = "returned"
  /\ request.prompt = "a bad angry dragon"
  /\ validated.is_safe
  /\ validated.removed_content = {}
  /\ validated.warnings = <<>>

\* C9: _calculate_reading_time gives "{m}-{m+1} minutes" with
\* m = max(1, word_count // 150): "2-3 minutes" for 300, "1-2 minutes" for
\* 50 and for 0.
TheoremC9 ==
  pc = "reading_time" =>
     LET m == IF word_count \div 150 >= 1 THEN word_count \div 150 ELSE 1
     IN  /\ reading_time = ToString(m) \o "-" \o ToString(m + 1) \o " minutes"
         /\ word_count = 300 => reading_time = "2-3 minutes"
         /\ word_count = 50 => reading_time = "1-2 minutes"
         /\ word_count = 0 => reading_time = "1-2 minutes"

WitnessC9 ==
  /\ pc = "reading_time"
  /\ word_count = 300
  /\ reading_time = "2-3 minutes"

\* C10: when the generation collaborator fails, generate raises: it returns
\* no story, neither from the model nor the safe default, and it has called
\* the collaborator exactly once; the TUI then displays no story and goes on
\* to its next question instead of ending.
TheoremC10 ==
  (\E i \in DOMAIN calls : calls[i].raises) =>
     /\ raised
     /\ story = None
     /\ Len(calls) = 1
     /\ displayed = None
     /\ pc \in {"raised", "confirm", "exit"}

WitnessC10 ==
  /\ pc = "confirm"
  /\ raised
  /\ Len(calls) = 1
  /\ calls[1].raises
  /\ story = None
  /\ displayed = None

\* C11: validate returns is_safe = false exactly when it replaced the prompt
\* by the genre template and appended the "significantly modified" warning;
\* so the template is never the prompt given to the generation collaborator,
\* and every prompt given to it has been enhanced: it begins with a story
\* beginning or with the genre opener.
TheoremC11 ==
  validated # None =>
     LET template == "A gentle " \o request.genre
                       \o " story about friendship and kindness"
         replaced == /\ validated.cleaned_prompt = template
                     /\ HasWarning(validated, "Prompt was significantly modified for safety")
         opener   == IF Lower(request.genre) \in DOMAIN genre_starters
                     THEN genre_starters[Lower(request.genre)]
                     ELSE "Once upon a time, "
     IN  /\ ~validated.is_safe <=> replaced
         /\ \A i \in DOMAIN calls :
              /\ calls[i].prompt # template
              /\ \/ StartsWith(calls[i].prompt, opener)
                 \/ \E b \in {"once", "there", "in a", "one day"} :
                      StartsWith(Lower(calls[i].prompt), b)

WitnessC11 ==
  /\ pc = "returned"
  /\ request.prompt = "kill fighting hate Scary"
  /\ request.genre = "space"
  /\ ~validated.is_safe
  /\ validated.cleaned_prompt = "A gentle space story about friendship and kindness"
  /\ HasWarning(validated, "Prompt was significantly modified for safety")
  /\ calls = <<>>

\* C12: whenever generate calls the collaborator, the prompt it passes
\* contains, as a whole word in any case, none of the terms of the returned
\* removed_content.
CounterC12 ==
  \A i \in DOMAIN calls :
     \A term \in validated.removed_content :
        MatchPositions(<<term>>, Lower(calls[i].prompt)) = {}

\* the number of white-space delimited tokens of a text, counted at the
\* last character of each token
TokensOf(text) ==
  Cardinality({i \in 1..Len(text) :
                 /\ Char(text, i) \notin {" ", "\n", "\t", "\r", "\f"}
                 /\ (i = Len(text) \/ Char(text, i + 1) \in {" ", "\n", "\t", "\r", "\f"})})

\* "{m}-{m+1} minutes" with m = max(1, n // 150)
ReadingTimeOf(n) ==
  LET m == IF n \div 150 >= 1 THEN n \div 150 ELSE 1
  IN  ToString(m) \o "-" \o ToString(m + 1) \o " minutes"

\* C13 as stated: every story generate returns, made from the model's text
\* or the safe default, has word_count equal to the number of white-space
\* delimited tokens of story_text and estimated_reading_time equal to
\* _calculate_reading_time(word_count).
CounterC13 ==
  story # None =>
     /\ story.word_count = TokensOf(story.story_text)
     /\ story.estimated_reading_time = ReadingTimeOf(story.word_count)

\* C13 as amended: word_count is the number of tokens of story_text on both
\* paths; estimated_reading_time is _calculate_reading_time(word_count) for a
\* story made from the model's text, and the fixed "2-3 minutes" for the safe
\* default story, whose 59 words would give "1-2 minutes".
TheoremC13 ==
  story # None =>
     /\ story.word_count = TokensOf(story.story_text)
     /\ IF calls # <<>>
        THEN story.estimated_reading_time = ReadingTimeOf(story.word_count)
        ELSE /\ story.word_count = 59
             /\ story.estimated_reading_time = "2-3 minutes"
             /\ ReadingTimeOf(story.word_count) = "1-2 minutes"

WitnessC13 ==
  /\ pc = "returned"
  /\ calls # <<>>
  /\ story # None
  /\ story.word_count = 302
  /\ story.estimated_reading_time = "2-3 minutes"

====
